---------------------------- MODULE Spec2Model ----------------------------
(***************************************************************************)
(* Grade Checker: reconciliation of roster grades against downloaded       *)
(* grades (src/app.py, compare_grades and its helpers).                    *)
(*                                                                         *)
(* Text is a sequence of one-character strings, so that strip, upper,      *)
(* lower and isnumeric are computed character by character.  A missing     *)
(* cell (pandas NaN) is the value NA, which is no text.                    *)
(***************************************************************************)
EXTENDS Integers, Sequences, FiniteSets, TLC

(***************************************************************************)
(* Characters and the string methods the code uses                         *)
(***************************************************************************)
LowerLetters == <<"a","b","c","d","e","f","g","h","i","j","k","l","m",
                  "n","o","p","q","r","s","t","u","v","w","x","y","z">>

UpperLetters == <<"A","B","C","D","E","F","G","H","I","J","K","L","M",
                  "N","O","P","Q","R","S","T","U","V","W","X","Y","Z">>

Digits == <<"0","1","2","3","4","5","6","7","8","9">>

Whitespace == {" "}

\* Code-point order of the characters of the model (space < ' < digits < A-Z < a-z).
CharOrder == <<" ", "'">> \o Digits \o UpperLetters \o LowerLetters

\* The missing value (NaN / None of a cell).
NA == <<"<NA>">>

\* str.upper() and str.lower(), one character.
UpperChar ==
    [c \in {CharOrder[k] : k \in 1..Len(CharOrder)} |->
        IF \E k \in 1..26 : LowerLetters[k] = c
        THEN UpperLetters[CHOOSE k \in 1..26 : LowerLetters[k] = c]
        ELSE c]

LowerChar ==
    [c \in {CharOrder[k] : k \in 1..Len(CharOrder)} |->
        IF \E k \in 1..26 : UpperLetters[k] = c
        THEN LowerLetters[CHOOSE k \in 1..26 : UpperLetters[k] = c]
        ELSE c]

\* str.upper()
Upper(s) == [k \in 1..Len(s) |-> UpperChar[s[k]]]

\* str.lower()
Lower(s) == [k \in 1..Len(s) |-> LowerChar[s[k]]]

\* str.strip(): what lies between the first and the last character that is no whitespace.
Strip(s) ==
    LET solid == {k \in 1..Len(s) : s[k] \notin Whitespace}
    IN  IF solid = {} THEN <<>>
        ELSE SubSeq(s, CHOOSE k \in solid : \A j \in solid : k <= j,
                       CHOOSE k \in solid : \A j \in solid : k >= j)

\* str.isnumeric(): at least one character, all of them numeric.
IsNumeric(s) ==
    /\ Len(s) > 0
    /\ \A k \in 1..Len(s) : \E d \in 1..Len(Digits) : Digits[d] = s[k]

\* str(x) / Series.astype(str): a missing value becomes the text "nan".
Str(v) == IF v = NA THEN <<"n","a","n">> ELSE v

\* Series.str.strip(), Series.str.upper(): a missing value stays missing.
StrStrip(v) == IF v = NA THEN NA ELSE Strip(v)

StrUpper(v) == IF v = NA THEN NA ELSE Upper(v)

\* Code point of a character, as its place in CharOrder.
Ord == [c \in {CharOrder[k] : k \in 1..Len(CharOrder)} |->
           CHOOSE k \in 1..Len(CharOrder) : CharOrder[k] = c]

\* Lexicographic order of texts (the order pandas sorts join keys in): a is a proper
\* prefix of b, or the first character they differ in is smaller in a.
LexLess(a, b) ==
    \E k \in 1..Len(b) :
        /\ k <= Len(a) + 1
        /\ \A j \in 1..(k - 1) : a[j] = b[j]
        /\ \/ k = Len(a) + 1
           \/ Ord[a[k]] < Ord[b[k]]

(***************************************************************************)
(* The literals of the code                                                *)
(***************************************************************************)
T_P == <<"P">>
T_PASS == <<"P","A","S","S">>
T_ABSENT == <<"A","B","S","E","N","T">>
T_ABS == <<"A","B","S">>
T_F == <<"F">>
T_W == <<"W">>
T_WITHDRAWN == <<"W","I","T","H","D","R","A","W","N">>
T_nan == <<"n","a","n">>
T_LETTER_GRADE == <<"L","E","T","T","E","R"," ","G","R","A","D","E">>
T_SID == <<"S","I","D">>
T_STUDENT_ID == <<"S","T","U","D","E","N","T"," ","I","D">>
T_Student_ID == <<"S","t","u","d","e","n","t"," ","I","D">>
T_Letter_Grade == <<"L","e","t","t","e","r"," ","G","r","a","d","e">>
T_ID == <<"I","D">>
T_Approved_final_grade ==
    <<"A","p","p","r","o","v","e","d"," ","f","i","n","a","l"," ","g","r","a","d","e">>
T_Withdrawn == <<"W","i","t","h","d","r","a","w","n">>

\* A faulty variant: the value is not trimmed.
normalize_grade_untrimmed(grade) ==
    LET g == Upper(Str(grade))
    IN  IF g \in {T_P, T_PASS} THEN T_PASS
        ELSE IF g \in {T_ABSENT, T_ABS} THEN T_ABSENT
        ELSE g

(***************************************************************************)
(* normalize_grade                                                         *)
(***************************************************************************)
normalize_grade(grade) ==
    LET g == Upper(Strip(Str(grade)))
    IN  IF g \in {T_P, T_PASS} THEN T_PASS
        ELSE IF g \in {T_ABSENT, T_ABS} THEN T_ABSENT
        ELSE g

(***************************************************************************)
(* Tables.  A grid is a sequence of rows, a row a sequence of cells, a     *)
(* cell a text or NA.  A frame is a grid read with one row as its header.  *)
(***************************************************************************)
Frame(columns, rows) == [columns |-> columns, rows |-> rows]

\* name in df.columns
HasColumn(df, name) == \E k \in 1..Len(df.columns) : df.columns[k] = name

ColumnIndex(df, name) ==
    CHOOSE k \in 1..Len(df.columns) :
        /\ df.columns[k] = name
        /\ \A j \in 1..(k - 1) : df.columns[j] # name

\* A faulty variant: the column labels are left as they are written.
StripColumns_untouched(df) == df

\* df.columns = df.columns.str.strip()
StripColumns(df) ==
    Frame([k \in 1..Len(df.columns) |-> StrStrip(df.columns[k])], df.rows)

\* set(row.astype(str).str.upper().str.strip())
RowUpper(row) == {Strip(Upper(Str(row[k]))) : k \in 1..Len(row)}

id_variants == {T_SID, T_STUDENT_ID}

IsHeaderRow(row) ==
    /\ T_LETTER_GRADE \in RowUpper(row)
    /\ RowUpper(row) \cap id_variants # {}

\* The rows of the raw grid that satisfy the header test (zero-based, as df_raw's index).
HeaderCandidates(grid) == {i \in 0..(Len(grid) - 1) : IsHeaderRow(grid[i + 1])}

\* header_row of read_roster_file: the first satisfying row; None when there is none.
None == -1

\* A faulty variant: the scan does not stop at the first satisfying row.
HeaderRow_last(grid) ==
    IF HeaderCandidates(grid) = {} THEN None
    ELSE CHOOSE i \in HeaderCandidates(grid) : \A j \in HeaderCandidates(grid) : i >= j

HeaderRow(grid) ==
    IF HeaderCandidates(grid) = {} THEN None
    ELSE CHOOSE i \in HeaderCandidates(grid) : \A j \in HeaderCandidates(grid) : i <= j

\* pd.read_excel(file_path, header=header_row)
ReadWithHeader(grid, header_row) ==
    Frame(grid[header_row + 1], SubSeq(grid, header_row + 2, Len(grid)))

\* What read_roster_file does with a staged roster: the exception it raises, or the frame.
\*   a file that is no spreadsheet: pd.read_excel raises ValueError;
\*   a damaged spreadsheet: pd.read_excel raises another exception (BadZipFile);
\*   no header row: ValueError("Header row with required keywords not found in ...").
read_roster_file(content) ==
    IF content.kind = "not_excel"
    THEN [raises |-> "ValueError", text |-> "Excel file format cannot be determined", df |-> NA]
    ELSE IF content.kind = "bad_zip"
    THEN [raises |-> "Exception", text |-> "File is not a zip file", df |-> NA]
    ELSE IF HeaderRow(content.grid) = None
    THEN [raises |-> "ValueError",
          text |-> "Header row with required keywords not found in ", df |-> NA]
    ELSE [raises |-> "no", text |-> "",
          df |-> ReadWithHeader(content.grid, HeaderRow(content.grid))]

\* pd.read_csv(tmp_downloaded_path): row 0 is the header; a file with no row at all
\* raises EmptyDataError.
read_csv(grid) ==
    IF grid = <<>>
    THEN [raises |-> "Exception", text |-> "No columns to parse from file", df |-> NA]
    ELSE [raises |-> "no", text |-> "", df |-> Frame(Head(grid), Tail(grid))]


(***************************************************************************)
(* The body of compare_grades for one paired course, as pure operators     *)
(***************************************************************************)
\* The roster's identifier column: 'SID', else 'Student ID', else none (NA).
sid_col(df_roster) ==
    IF HasColumn(df_roster, T_SID) THEN T_SID
    ELSE IF HasColumn(df_roster, T_Student_ID) THEN T_Student_ID
    ELSE NA

\* A faulty variant: the Letter Grade column is checked before the identifier column.
ColumnError_grade_first(df_roster, df_downloaded) ==
    IF ~HasColumn(df_roster, T_Letter_Grade)
    THEN "'Letter Grade' column is missing."
    ELSE IF sid_col(df_roster) = NA
    THEN "Required student id column is missing."
    ELSE IF \/ ~HasColumn(df_downloaded, T_ID)
            \/ ~HasColumn(df_downloaded, T_Approved_final_grade)
    THEN "Required columns are missing in downloaded file."
    ELSE ""

\* The required-column checks in the order of the code; "" when all pass.
ColumnError(df_roster, df_downloaded) ==
    IF sid_col(df_roster) = NA
    THEN "Required student id column is missing."
    ELSE IF ~HasColumn(df_roster, T_Letter_Grade)
    THEN "'Letter Grade' column is missing."
    ELSE IF \/ ~HasColumn(df_downloaded, T_ID)
            \/ ~HasColumn(df_downloaded, T_Approved_final_grade)
    THEN "Required columns are missing in downloaded file."
    ELSE ""

\* df_roster[[sid_col, 'Letter Grade']] after "Clean data".
df_roster_sub(df_roster) ==
    LET s == ColumnIndex(df_roster, sid_col(df_roster))
        g == ColumnIndex(df_roster, T_Letter_Grade)
    IN  [k \in 1..Len(df_roster.rows) |->
            [sid          |-> Strip(Str(df_roster.rows[k][s])),
             Letter_Grade |-> Upper(Strip(Str(df_roster.rows[k][g])))]]

\* df_downloaded[['ID', 'Approved final grade', 'Withdrawn']] after "Clean data";
\* a table without a Withdrawn column gets one holding ''.
df_downloaded_sub(df_downloaded) ==
    LET i == ColumnIndex(df_downloaded, T_ID)
        g == ColumnIndex(df_downloaded, T_Approved_final_grade)
        Flag(row) == IF HasColumn(df_downloaded, T_Withdrawn)
                     THEN row[ColumnIndex(df_downloaded, T_Withdrawn)]
                     ELSE <<>>
    IN  [k \in 1..Len(df_downloaded.rows) |->
            [ID                   |-> Strip(Str(df_downloaded.rows[k][i])),
             Approved_final_grade |-> Upper(Strip(Str(df_downloaded.rows[k][g]))),
             Withdrawn            |-> Upper(Strip(Str(Flag(df_downloaded.rows[k]))))]]

\* The texts of a set, in lexicographic order.
RECURSIVE SortKeys(_)
SortKeys(S) ==
    IF S = {} THEN <<>>
    ELSE LET m == CHOOSE a \in S : \A b \in S \ {a} : LexLess(a, b)
         IN  <<m>> \o SortKeys(S \ {m})

\* One row of the merged frame (indicator is the _merge column); the columns of a side
\* that has no row for the key are missing.
MergedRow(l, r, indicator) ==
    [sid                  |-> IF indicator = "right_only" THEN NA ELSE l.sid,
     Letter_Grade         |-> IF indicator = "right_only" THEN NA ELSE l.Letter_Grade,
     ID                   |-> IF indicator = "left_only" THEN NA ELSE r.ID,
     Approved_final_grade |-> IF indicator = "left_only" THEN NA ELSE r.Approved_final_grade,
     Withdrawn            |-> IF indicator = "left_only" THEN NA ELSE r.Withdrawn,
     indicator            |-> indicator]

\* The merged rows of one key: every left row with every right row of that key, or the
\* rows of the one side that has the key.
KeyBlock(left, right, key) ==
    LET IsL(l) == l.sid = key
        IsR(r) == r.ID = key
        L == SelectSeq(left, IsL)
        R == SelectSeq(right, IsR)
    IN  IF R = <<>> THEN [n \in 1..Len(L) |-> MergedRow(L[n], NA, "left_only")]
        ELSE IF L = <<>> THEN [n \in 1..Len(R) |-> MergedRow(NA, R[n], "right_only")]
        ELSE [n \in 1..(Len(L) * Len(R)) |->
                 MergedRow(L[((n - 1) \div Len(R)) + 1], R[((n - 1) % Len(R)) + 1], "both")]

RECURSIVE ConcatBlocks(_, _, _)
ConcatBlocks(left, right, keys) ==
    IF keys = <<>> THEN <<>>
    ELSE KeyBlock(left, right, Head(keys)) \o ConcatBlocks(left, right, Tail(keys))

\* pd.merge(left, right, left_on=sid_col, right_on='ID', how='outer', indicator=True)
pd_merge(left, right) ==
    ConcatBlocks(left, right,
                 SortKeys({left[k].sid : k \in 1..Len(left)}
                          \cup {right[k].ID : k \in 1..Len(right)}))

\* merged[sid_col].combine_first(merged['ID']).astype(str).str.strip()
ID_final(m) == Strip(Str(IF m.sid # NA THEN m.sid ELSE m.ID))

\* merged['ID_final'].notna() & (merged['ID_final'] != '') & (.str.lower() != 'nan')
KeepID(id) == id # NA /\ id # <<>> /\ Lower(id) # T_nan

\* A faulty variant: the Withdrawn column is ignored.
is_withdrawn_by_grade(m) == m.Approved_final_grade = T_W

\* (merged['Approved final grade'] == 'W') | (merged['Withdrawn'] == 'WITHDRAWN')
is_withdrawn(m) == m.Approved_final_grade = T_W \/ m.Withdrawn = T_WITHDRAWN

\* A faulty variant: ABSENT is compared like any other grade.
mismatch_without_absent_rule(m) ==
    /\ m.indicator = "both"
    /\ normalize_grade(m.Letter_Grade) # normalize_grade(m.Approved_final_grade)

\* A faulty variant: the rows of one side only are compared too.
mismatch_on_any_row(m) ==
    LET norm_roster_grade     == normalize_grade(m.Letter_Grade)
        norm_downloaded_grade == normalize_grade(m.Approved_final_grade)
    IN  \/ norm_roster_grade = T_ABSENT /\ norm_downloaded_grade # T_F
        \/ norm_roster_grade # T_ABSENT /\ norm_roster_grade # norm_downloaded_grade

\* merged['mismatch']
mismatch(m) ==
    LET norm_roster_grade     == normalize_grade(m.Letter_Grade)
        norm_downloaded_grade == normalize_grade(m.Approved_final_grade)
    IN  /\ m.indicator = "both"
        /\ \/ norm_roster_grade = T_ABSENT /\ norm_downloaded_grade # T_F
           \/ norm_roster_grade # T_ABSENT /\ norm_roster_grade # norm_downloaded_grade

\* The merged frame after the ID_final filter, with the computed columns
\* (the course column is set by WithCourse).
Merged(df_roster, df_downloaded) ==
    LET raw == pd_merge(df_roster_sub(df_roster), df_downloaded_sub(df_downloaded))
        all == [k \in 1..Len(raw) |->
                   [ID_final             |-> ID_final(raw[k]),
                    Letter_Grade         |-> raw[k].Letter_Grade,
                    Approved_final_grade |-> raw[k].Approved_final_grade,
                    indicator            |-> raw[k].indicator,
                    matched              |-> ~mismatch(raw[k]),
                    is_withdrawn         |-> is_withdrawn(raw[k])]]
        Keep(row) == KeepID(row.ID_final)
    IN  SelectSeq(all, Keep)

\* merged['course'] = base_name
WithCourse(merged, course) ==
    [k \in 1..Len(merged) |->
        [course               |-> course,
         ID_final             |-> merged[k].ID_final,
         Letter_Grade         |-> merged[k].Letter_Grade,
         Approved_final_grade |-> merged[k].Approved_final_grade,
         indicator            |-> merged[k].indicator,
         matched              |-> merged[k].matched,
         is_withdrawn         |-> merged[k].is_withdrawn]]

\* merged.loc[merged['is_withdrawn'], 'ID_final'].tolist()
withdrawn_ids(merged) ==
    LET W(row) == row.is_withdrawn
        rows == SelectSeq(merged, W)
    IN  [k \in 1..Len(rows) |-> rows[k].ID_final]

\* A faulty variant: every identifier of the merged frame is taken.
valid_ids_unfiltered(merged) == {merged[k].ID_final : k \in 1..Len(merged)}

\* merged['ID_final'][merged['ID_final'].str.isnumeric()], as the set update() adds.
valid_ids(merged) ==
    {merged[k].ID_final : k \in {j \in 1..Len(merged) : IsNumeric(merged[j].ID_final)}}

\* result = merged[['course', 'ID_final', 'Letter Grade', 'Approved final grade',
\*                  'matched', 'is_withdrawn']]; result = result[result['ID_final'].str.isnumeric()]
ResultRows(merged) ==
    LET Num(row) == IsNumeric(row.ID_final)
        kept == SelectSeq(merged, Num)
    IN  [k \in 1..Len(kept) |->
            [course               |-> kept[k].course,
             ID_final             |-> kept[k].ID_final,
             Letter_Grade         |-> kept[k].Letter_Grade,
             Approved_final_grade |-> kept[k].Approved_final_grade,
             matched              |-> kept[k].matched,
             is_withdrawn         |-> kept[k].is_withdrawn]]

\* A faulty variant: every row is reported as unmatched.
Unmatched_everything(result) == result

\* unmatched = result[~result['matched']]
Unmatched(result) ==
    LET Bad(row) == ~row.matched
    IN  SelectSeq(result, Bad)


(***************************************************************************)
(* The inputs of the model                                                 *)
(***************************************************************************)
\* The most roster files one run is given.
MaxCourses == 2

\* The most data rows of a roster, and of a downloaded table, of CourseInputs.
MaxRosterRows == 2

MaxDownloadedRows == 1

\* os.path.splitext(os.path.basename(f.name))[0]: a file name is its stem and extension.
FileName(stem, ext) == [stem |-> stem, ext |-> ext]

base_name(file) == file.stem

RosterNames == {FileName("MATH101", ".xlsx"), FileName("CSAI330", ".xlsx")}

DownloadedNames == {FileName("MATH101", ".csv"), FileName("CSAI330", ".csv")}

\* Sequences over S of length at most n.
SeqUpTo(S, n) == UNION {[1..k -> S] : k \in 0..n}

\* Identifiers and grade tokens as the cells hold them.
Id100 == <<"1","0","0">>
Id200 == <<"2","0","0">>
Id200Padded == <<" ","2","0","0"," ">>
IdX1 == <<"x","1">>
Blank == <<>>

G_A == <<"A">>
G_a == <<"a">>
G_B == <<"B">>
G_D == <<"D">>
G_abs == <<"a","b","s">>
G_Absent == <<" ","A","b","s","e","n","t">>
G_p == <<"p">>
G_Pass == <<"P","a","s","s">>
G_w == <<"w"," ">>
F_Withdrawn == <<"W","i","t","h","d","r","a","w","n"," ">>

RosterHeader == <<T_SID, T_Letter_Grade>>

DownloadedHeader == <<T_ID, T_Approved_final_grade, T_Withdrawn>>

\* A roster spreadsheet: rows above the header, the header, the data rows.
Roster(above, header, rows) == [kind |-> "xlsx", grid |-> above \o <<header>> \o rows]

TitleRow == <<<<"G","r","a","d","e","s">>, NA>>

\* A downloaded table: the header, then the data rows.
Downloaded(header, rows) == <<header>> \o rows

Input(roster, downloaded) == [roster |-> roster, downloaded |-> downloaded]

\* Pairs of files that are reconciled, one for each shape of joined rows.
ReconciledInputs ==
    { Input(Roster(<<>>, RosterHeader, <<>>), Downloaded(DownloadedHeader, <<>>)),
      Input(Roster(<<>>, RosterHeader, << <<Id100, G_A>> >>),
            Downloaded(DownloadedHeader, << <<Id100, G_a, Blank>> >>)),
      Input(Roster(<<TitleRow>>, RosterHeader, << <<Id100, G_A>> >>),
            Downloaded(DownloadedHeader, << <<Id100, G_B, NA>> >>)),
      Input(Roster(<<>>, RosterHeader, << <<Id100, G_Absent>> >>),
            Downloaded(DownloadedHeader, << <<Id100, T_F, Blank>> >>)),
      Input(Roster(<<>>, RosterHeader, << <<Id200, G_abs>> >>),
            Downloaded(DownloadedHeader, << <<Id200, G_D, Blank>> >>)),
      Input(Roster(<<>>, <<T_Student_ID, T_Letter_Grade>>, << <<Id200, G_p>> >>),
            Downloaded(DownloadedHeader, << <<Id200Padded, G_Pass, Blank>> >>)),
      Input(Roster(<<>>, RosterHeader, << <<Id200, G_A>> >>),
            Downloaded(DownloadedHeader, << <<Id100, T_W, Blank>> >>)),
      Input(Roster(<<>>, RosterHeader, << <<Id100, G_A>>, <<Id100, G_A>> >>),
            Downloaded(DownloadedHeader, << <<Id100, G_A, Blank>> >>)),
      Input(Roster(<<>>, RosterHeader, << <<Id100, G_A>> >>),
            Downloaded(DownloadedHeader, << <<Id100, G_w, F_Withdrawn>> >>)),
      Input(Roster(<<>>, RosterHeader, << <<Id200Padded, G_B>> >>),
            Downloaded(DownloadedHeader, << <<IdX1, T_W, Blank>>, <<Id200, G_B, Blank>> >>)),
      Input(Roster(<<>>, RosterHeader, << <<Id100, G_A>>, <<Id200, G_abs>> >>),
            Downloaded(DownloadedHeader, << <<Id200, T_ABSENT, Blank>>, <<Id100, G_a, Blank>> >>)),
      Input(Roster(<<>>, RosterHeader, << <<NA, NA>> >>),
            Downloaded(DownloadedHeader, << <<NA, NA, NA>> >>)),
      Input(Roster(<<>>, RosterHeader, << <<Id100, G_B>> >>),
            Downloaded(<<T_ID, T_Approved_final_grade>>, << <<Id200, G_B>> >>)) }

\* Pairs of files one of which cannot be read, or lacks its header or a column.
FailingInputs ==
    { Input(Roster(<<>>, TitleRow, << <<Id100, G_A>> >>),
            Downloaded(DownloadedHeader, << <<Id100, G_A, Blank>> >>)),
      Input([kind |-> "not_excel", grid |-> <<>>],
            Downloaded(DownloadedHeader, << <<Id100, G_A, Blank>> >>)),
      Input([kind |-> "bad_zip", grid |-> <<>>],
            Downloaded(DownloadedHeader, << <<Id100, G_A, Blank>> >>)),
      Input(Roster(<<>>, RosterHeader, << <<Id100, G_A>> >>), <<>>),
      Input(Roster(<<>>, <<Lower(T_SID), T_Letter_Grade>>, << <<Id100, G_A>> >>),
            Downloaded(DownloadedHeader, << <<Id100, G_A, Blank>> >>)),
      Input(Roster(<<>>, <<T_SID, T_LETTER_GRADE>>, << <<Id100, G_A>> >>),
            Downloaded(DownloadedHeader, << <<Id100, G_A, Blank>> >>)),
      Input(Roster(<<>>, RosterHeader, << <<Id100, G_A>> >>),
            Downloaded(<<T_ID, T_Withdrawn>>, << <<Id100, Blank>> >>)) }

\* The file pairs a course of a batch is drawn from.
BatchInputs == ReconciledInputs \cup FailingInputs

\* The file pairs of the one-course runs: every roster of at most MaxRosterRows rows and
\* every downloaded table of at most MaxDownloadedRows rows over these rows.
CourseRosterRows ==
    {<<Id100, g>> : g \in {G_abs, G_Absent, G_p, G_A}} \cup {<<Id200Padded, T_F>>}

CourseDownloadedRows ==
    {<<Id100, g, Blank>> : g \in {T_F, G_D, G_Pass, G_a, G_w, T_ABSENT}}
        \cup {<<Id100, G_a, F_Withdrawn>>, <<Id200, G_A, NA>>, <<IdX1, T_W, Blank>>}

CourseInputs ==
    {Input(Roster(<<>>, RosterHeader, rows), Downloaded(DownloadedHeader, drows)) :
        rows \in SeqUpTo(CourseRosterRows, MaxRosterRows),
        drows \in SeqUpTo(CourseDownloadedRows, MaxDownloadedRows)}

(***************************************************************************)
(* The try block of one paired course up to the merge, per pair of files   *)
(***************************************************************************)
\* What reading and merging the two staged files comes to: the exception raised and its
\* text, or the column that is missing, or the merged frame.
TryBlock(inp) ==
    LET r == read_roster_file(inp.roster)
        c == read_csv(inp.downloaded)
        df_roster == StripColumns(r.df)
        df_downloaded == StripColumns(c.df)
    IN  IF r.raises # "no"
        THEN [raises |-> r.raises, text |-> r.text, column_error |-> "", merged |-> <<>>]
        ELSE IF c.raises # "no"
        THEN [raises |-> c.raises, text |-> c.text, column_error |-> "", merged |-> <<>>]
        ELSE IF ColumnError(df_roster, df_downloaded) # ""
        THEN [raises |-> "no", text |-> "",
              column_error |-> ColumnError(df_roster, df_downloaded), merged |-> <<>>]
        ELSE [raises |-> "no", text |-> "", column_error |-> "",
              merged |-> Merged(df_roster, df_downloaded)]

\* A pair of files with what its try block comes to.
Tried(Inputs) == {[inp |-> inp, try |-> TryBlock(inp)] : inp \in Inputs}

BatchTried == Tried(BatchInputs)

CourseTried == Tried(CourseInputs)

(***************************************************************************)
(* The run of compare_grades                                               *)
(***************************************************************************)
VARIABLES
    roster_files,        \* the uploaded roster files, in order (their names)
    downloaded_files,    \* the uploaded downloaded files (their names)
    next_roster,         \* position of the for loop in roster_files (1-based)
    results,
    all_unmatched,
    unique_student_ids,
    summary_stats,
    tmp_files,           \* the staged temporary files that exist on disk
    roster_value,        \* what was last written to tmp_roster
    downloaded_value,    \* what was last written to tmp_downloaded
    returned,            \* compare_grades has returned
    grade_token,         \* a value given to normalize_grade
    normalized           \* what normalize_grade returned for it, then for its own result

\* The variables of a call of normalize_grade on its own.
grade_vars == <<grade_token, normalized>>

\* The variables of a run of compare_grades.
run_vars == <<roster_files, downloaded_files, next_roster, results, all_unmatched,
              unique_student_ids, summary_stats, tmp_files, roster_value,
              downloaded_value, returned>>

vars == <<run_vars, grade_vars>>

\* The keys of downloaded_dict.
downloaded_dict == {base_name(f) : f \in downloaded_files}

Message(text, args) == [text |-> text, args |-> args]

ErrorResult(course, message) ==
    [course |-> course, status |-> "error", message |-> message, data |-> "None"]

tmp_roster_path(n) == <<n, ".xlsx">>

tmp_downloaded_path(n) == <<n, ".csv">>

\* The two NamedTemporaryFile(delete=False) blocks: both files exist from here on.
Staged(n) == tmp_files \cup {tmp_roster_path(n), tmp_downloaded_path(n)}

\* os.unlink(tmp_roster_path); os.unlink(tmp_downloaded_path)
Unlinked(files, n) == files \ {tmp_roster_path(n), tmp_downloaded_path(n)}

InLoop == ~returned /\ next_roster <= Len(roster_files)

Paired == base_name(roster_files[next_roster]) \in downloaded_dict

\* What the paired branch does before anything can fail: count the course, stage the files.
PairedPrologue(inp) ==
    /\ roster_value' = inp.roster
    /\ downloaded_value' = inp.downloaded
    /\ next_roster' = next_roster + 1
    /\ UNCHANGED <<grade_vars, roster_files, downloaded_files, returned>>

\* A faulty variant: a roster without a downloaded file is passed over in silence.
NoMatchingFile_skipped ==
    /\ InLoop
    /\ ~Paired
    /\ next_roster' = next_roster + 1
    /\ UNCHANGED <<grade_vars, roster_files, downloaded_files, results, all_unmatched,
                   unique_student_ids, summary_stats, tmp_files, roster_value,
                   downloaded_value, returned>>

\* A faulty variant: a roster without a downloaded file is counted as a course.
NoMatchingFile_counted ==
    /\ InLoop
    /\ ~Paired
    /\ results' = Append(results,
                         ErrorResult(base_name(roster_files[next_roster]),
                                     Message("No matching downloaded file found", <<>>)))
    /\ summary_stats' = [summary_stats EXCEPT !.total_courses = @ + 1]
    /\ next_roster' = next_roster + 1
    /\ UNCHANGED <<grade_vars, roster_files, downloaded_files, all_unmatched, unique_student_ids,
                   tmp_files, roster_value, downloaded_value, returned>>

\* A faulty variant: the error outcome is put at the head of the results.
NoMatchingFile_prepended ==
    /\ InLoop
    /\ ~Paired
    /\ results' = <<ErrorResult(base_name(roster_files[next_roster]),
                                Message("No matching downloaded file found", <<>>))>>
                     \o results
    /\ next_roster' = next_roster + 1
    /\ UNCHANGED <<grade_vars, roster_files, downloaded_files, all_unmatched, unique_student_ids,
                   summary_stats, tmp_files, roster_value, downloaded_value, returned>>

\* else-branch of "if base_name in downloaded_dict"
NoMatchingFile ==
    /\ InLoop
    /\ ~Paired
    /\ results' = Append(results,
                         ErrorResult(base_name(roster_files[next_roster]),
                                     Message("No matching downloaded file found", <<>>)))
    /\ next_roster' = next_roster + 1
    /\ UNCHANGED <<grade_vars, roster_files, downloaded_files, all_unmatched, unique_student_ids,
                   summary_stats, tmp_files, roster_value, downloaded_value, returned>>

\* A faulty variant: the course is counted only after its roster was read.
RosterValueError_uncounted(TriedInputs) ==
    /\ InLoop
    /\ Paired
    /\ \E t \in TriedInputs :
           /\ t.try.raises = "ValueError"
           /\ PairedPrologue(t.inp)
           /\ tmp_files' = Staged(next_roster)
           /\ results' = Append(results,
                                ErrorResult(base_name(roster_files[next_roster]),
                                            Message(t.try.text,
                                                    <<tmp_roster_path(next_roster)>>)))
           /\ UNCHANGED <<all_unmatched, unique_student_ids, summary_stats>>

\* read_roster_file raises ValueError: the inner except appends the error and continues.
\* The staged files are not unlinked.
RosterValueError(TriedInputs) ==
    /\ InLoop
    /\ Paired
    /\ \E t \in TriedInputs :
           /\ t.try.raises = "ValueError"
           /\ PairedPrologue(t.inp)
           /\ summary_stats' = [summary_stats EXCEPT !.total_courses = @ + 1]
           /\ tmp_files' = Staged(next_roster)
           /\ results' = Append(results,
                                ErrorResult(base_name(roster_files[next_roster]),
                                            Message(t.try.text,
                                                    <<tmp_roster_path(next_roster)>>)))
           /\ UNCHANGED <<all_unmatched, unique_student_ids>>

\* A faulty variant: the exception is not caught and ends the run.
ProcessingFailure_propagates(TriedInputs) ==
    /\ InLoop
    /\ Paired
    /\ \E t \in TriedInputs :
           /\ t.try.raises = "Exception"
           /\ roster_value' = t.inp.roster
           /\ downloaded_value' = t.inp.downloaded
           /\ summary_stats' = [summary_stats EXCEPT !.total_courses = @ + 1]
           /\ tmp_files' = Staged(next_roster)
           /\ returned' = TRUE
           /\ UNCHANGED <<grade_vars, roster_files, downloaded_files, next_roster, results,
                          all_unmatched, unique_student_ids>>

\* Any other exception of the try block (reading either file): the outer except appends
\* the error.  The staged files are not unlinked.
ProcessingFailure(TriedInputs) ==
    /\ InLoop
    /\ Paired
    /\ \E t \in TriedInputs :
           /\ t.try.raises = "Exception"
           /\ PairedPrologue(t.inp)
           /\ summary_stats' = [summary_stats EXCEPT !.total_courses = @ + 1]
           /\ tmp_files' = Staged(next_roster)
           /\ results' = Append(results,
                                ErrorResult(base_name(roster_files[next_roster]),
                                            Message("Error processing files: ",
                                                    <<t.try.text>>)))
           /\ UNCHANGED <<all_unmatched, unique_student_ids>>

\* Both files were read and unlinked; a required column is missing.
MissingColumn(TriedInputs) ==
    /\ InLoop
    /\ Paired
    /\ \E t \in TriedInputs :
           /\ t.try.raises = "no"
           /\ t.try.column_error # ""
           /\ PairedPrologue(t.inp)
           /\ summary_stats' = [summary_stats EXCEPT !.total_courses = @ + 1]
           /\ tmp_files' = Unlinked(Staged(next_roster), next_roster)
           /\ results' = Append(results,
                                ErrorResult(base_name(roster_files[next_roster]),
                                            Message(t.try.column_error, <<>>)))
           /\ UNCHANGED <<all_unmatched, unique_student_ids>>

\* A faulty variant: every reconciled course is counted as one with mismatches.
UpdatedStats_every_course(stats, result, unmatched, withdrawn) ==
    [stats EXCEPT
        !.total_courses = @ + 1,
        !.withdrawn_students = @ + Len(withdrawn),
        !.total_students = @ + Len(result),
        !.courses_with_mismatches = @ + 1,
        !.total_mismatches = IF Len(unmatched) > 0 THEN @ + Len(unmatched) ELSE @]

\* The statistics after a reconciled course.
UpdatedStats(stats, result, unmatched, withdrawn) ==
    [stats EXCEPT
        !.total_courses = @ + 1,
        !.withdrawn_students = @ + Len(withdrawn),
        !.total_students = @ + Len(result),
        !.courses_with_mismatches = IF Len(unmatched) > 0 THEN @ + 1 ELSE @,
        !.total_mismatches = IF Len(unmatched) > 0 THEN @ + Len(unmatched) ELSE @]

SuccessResult(course, result, unmatched, withdrawn) ==
    [course    |-> course,
     status    |-> "success",
     message   |-> Message("Processed students, found mismatches, withdrawn",
                           <<Len(result), Len(unmatched), Len(withdrawn)>>),
     data      |-> result,
     unmatched |-> unmatched,
     withdrawn |-> withdrawn]

\* The course is reconciled: merge, classify, update the statistics, append the result.
Reconcile(TriedInputs) ==
    /\ InLoop
    /\ Paired
    /\ \E t \in TriedInputs :
           LET course == base_name(roster_files[next_roster])
               merged == WithCourse(t.try.merged, course)
               withdrawn == withdrawn_ids(merged)
               result == ResultRows(merged)
               unmatched == Unmatched(result)
           IN  /\ t.try.raises = "no"
               /\ t.try.column_error = ""
               /\ PairedPrologue(t.inp)
               /\ tmp_files' = Unlinked(Staged(next_roster), next_roster)
               /\ unique_student_ids' = unique_student_ids \cup valid_ids(merged)
               /\ summary_stats' = UpdatedStats(summary_stats, result, unmatched, withdrawn)
               /\ all_unmatched' = IF Len(unmatched) > 0
                                   THEN Append(all_unmatched, unmatched)
                                   ELSE all_unmatched
               /\ results' = Append(results,
                                    SuccessResult(course, result, unmatched, withdrawn))

\* After the loop: set unique_students and return.
Return ==
    /\ ~returned
    /\ next_roster > Len(roster_files)
    /\ summary_stats' =
           [summary_stats EXCEPT !.unique_students = Cardinality(unique_student_ids)]
    /\ returned' = TRUE
    /\ UNCHANGED <<grade_vars, roster_files, downloaded_files, next_roster, results, all_unmatched,
                   unique_student_ids, tmp_files, roster_value, downloaded_value>>

(***************************************************************************)
(* Specifications                                                          *)
(***************************************************************************)
InitialStats ==
    [total_courses |-> 0, courses_with_mismatches |-> 0, total_mismatches |-> 0,
     total_students |-> 0, unique_students |-> 0, withdrawn_students |-> 0]

\* The state at the top of the loop, for the given uploads.
RunStart(rosters, downloads) ==
    /\ roster_files = rosters
    /\ downloaded_files = downloads
    /\ next_roster = 1
    /\ results = <<>>
    /\ all_unmatched = <<>>
    /\ unique_student_ids = {}
    /\ summary_stats = InitialStats
    /\ tmp_files = {}
    /\ roster_value = [kind |-> "none", grid |-> <<>>]
    /\ downloaded_value = <<>>
    /\ returned = FALSE

\* No call of normalize_grade on its own is under way.
Start(rosters, downloads) ==
    /\ RunStart(rosters, downloads)
    /\ grade_token = <<>>
    /\ normalized = <<>>

Init ==
    \E rosters \in SeqUpTo(RosterNames, MaxCourses), downloads \in SUBSET DownloadedNames :
        Start(rosters, downloads)

Next ==
    \/ NoMatchingFile
    \/ RosterValueError(BatchTried)
    \/ ProcessingFailure(BatchTried)
    \/ MissingColumn(BatchTried)
    \/ Reconcile(BatchTried)
    \/ Return

\* A batch of at most MaxCourses rosters.
Spec == Init /\ [][Next]_vars

\* The loop is sequential code: it always takes its next step.
FairSpec == Spec /\ WF_vars(Next)

InitCourse ==
    Start(<<FileName("MATH101", ".xlsx")>>, {FileName("MATH101", ".csv")})

NextCourse ==
    \/ Reconcile(CourseTried)
    \/ Return

\* One paired course, over every pair of tables of CourseInputs.
SpecCourse == InitCourse /\ [][NextCourse]_vars

\* The most characters of a grade token drawn from GradeAlphabet.
MaxTokenLen == 3

\* The most times normalize_grade is applied in a row, to a token and then to its results.
MaxApplications == 2

GradeAlphabet == {" ", "p", "P", "a", "A", "b", "s", "S"}

\* The values normalize_grade is given: every short token over GradeAlphabet, the
\* grades of the tables above, and the missing value.
GradeTokens ==
    SeqUpTo(GradeAlphabet, MaxTokenLen)
        \cup {G_Absent, G_Pass, G_w, G_D, T_PASS, T_ABSENT, Lower(T_ABSENT),
              Lower(T_PASS) \o <<" ">>, T_F, T_W, NA}

InitGrade ==
    /\ RunStart(<<>>, {})
    /\ grade_token \in GradeTokens
    /\ normalized = <<>>

\* normalize_grade is called on the value, then on what it returned.
Normalize ==
    /\ Len(normalized) < MaxApplications
    /\ normalized' = Append(normalized,
                            normalize_grade(IF normalized = <<>>
                                            THEN grade_token
                                            ELSE normalized[Len(normalized)]))
    /\ UNCHANGED <<grade_token, run_vars>>

NextGrade == Normalize

\* normalize_grade on its own, over GradeTokens.
SpecGrade == InitGrade /\ [][NextGrade]_vars

\* The most rows of a roster grid of GridInputs.
MaxGridRows == 4

Padded(text) == <<" ">> \o text \o <<" ">>

\* The rows a roster grid is made of: a blank row, the header row in two spellings,
\* rows with one of the two keywords only, and a data row.
GridRows ==
    { <<NA, NA>>,
      RosterHeader,
      <<T_STUDENT_ID, T_LETTER_GRADE>>,
      <<NA, T_Letter_Grade>>,
      <<T_SID, NA>>,
      <<Id100, G_A>> }

\* Every roster grid of at most MaxGridRows rows, with a downloaded table of no rows.
GridInputs ==
    {Input([kind |-> "xlsx", grid |-> grid], Downloaded(DownloadedHeader, <<>>)) :
        grid \in SeqUpTo(GridRows, MaxGridRows)}

\* Header rows that the scan of read_roster_file locates, in several spellings.
LocatedHeaders ==
    { RosterHeader,
      <<T_Student_ID, T_Letter_Grade>>,
      <<Padded(T_SID), Padded(T_Letter_Grade)>>,
      <<T_STUDENT_ID, T_LETTER_GRADE>>,
      <<T_SID, T_LETTER_GRADE>>,
      <<T_Student_ID, Lower(T_Letter_Grade)>>,
      <<Lower(T_SID), T_Letter_Grade>>,
      <<T_STUDENT_ID, T_Letter_Grade>>,
      <<Lower(T_SID), Lower(T_Letter_Grade)>> }

\* Downloaded tables with and without each of their columns.
DownloadedTables ==
    { Downloaded(DownloadedHeader, << <<Id100, G_B, Blank>> >>),
      Downloaded(<<Padded(T_ID), T_Approved_final_grade, T_Withdrawn>>,
                 << <<Id100, G_a, F_Withdrawn>> >>),
      Downloaded(<<T_ID, T_Approved_final_grade>>, << <<Id100, G_a>>, <<Id200, G_w>> >>),
      Downloaded(<<T_ID, T_Withdrawn>>, << <<Id100, Blank>> >>),
      Downloaded(<<T_Approved_final_grade, T_Withdrawn>>, << <<G_a, Blank>> >>),
      Downloaded(<<Lower(T_ID), T_Approved_final_grade, T_Withdrawn>>,
                 << <<Id100, G_a, Blank>> >>),
      Downloaded(<<T_ID, Upper(T_Approved_final_grade), T_Withdrawn>>,
                 << <<Id100, G_a, Blank>> >>),
      Downloaded(<<T_Withdrawn>>, << <<Blank>> >>) }

\* Every located header with every downloaded table.
ColumnInputs ==
    {Input(Roster(<<>>, header, << <<Id100, G_A>> >>), downloaded) :
        header \in LocatedHeaders, downloaded \in DownloadedTables}

ReadTried == Tried(GridInputs \cup ColumnInputs)

NextRead ==
    \/ RosterValueError(ReadTried)
    \/ MissingColumn(ReadTried)
    \/ Reconcile(ReadTried)
    \/ Return

\* One paired course, over the roster grids and the column layouts above.
SpecRead == InitCourse /\ [][NextRead]_vars

(***************************************************************************)
(* Vocabulary of the properties                                            *)
(***************************************************************************)
Last(seq) == seq[Len(seq)]

Successes == {k \in 1..Len(results) : results[k].status = "success"}

Errors == {k \in 1..Len(results) : results[k].status = "error"}

\* The rosters that have a downloaded file of the same name.
PairedRosters == {k \in 1..Len(roster_files) : base_name(roster_files[k]) \in downloaded_dict}

\* Which side of the join a result row came from: the grade of a side that had no row
\* for the identifier is missing.
JoinOrigin(row) ==
    IF row.Approved_final_grade = NA THEN "roster_only"
    ELSE IF row.Letter_Grade = NA THEN "downloaded_only"
    ELSE "both"

\* The places of the rows of a sequence that satisfy a test.
Where(rows, Test(_)) == {n \in 1..Len(rows) : Test(rows[n])}

IsMatched(row) == row.matched

IsUnmatched(row) == ~row.matched

RECURSIVE SumOver(_, _)
SumOver(S, f) ==
    IF S = {} THEN 0
    ELSE LET k == CHOOSE j \in S : TRUE
         IN  f[k] + SumOver(S \ {k}, f)

\* The sum, over the successful outcomes, of a count taken of each.
SumOfSuccesses(Count(_)) == SumOver(Successes, [k \in Successes |-> Count(results[k])])

RowCount(outcome) == Len(outcome.data)

\* The identifiers of the rows of the successful outcomes.
AllRowIds ==
    UNION {{results[k].data[n].ID_final : n \in 1..Len(results[k].data)} : k \in Successes}

UnmatchedCount(outcome) == Len(outcome.unmatched)

WithdrawnCount(outcome) == Len(outcome.withdrawn)

\* The data rows of the files last staged.
StagedRosterRows == Tail(roster_value.grid)

StagedDownloadedRows == Tail(downloaded_value)

(***************************************************************************)
(* C1.  A row present on both sides is a mismatch exactly when the         *)
(* normalized roster grade is ABSENT and the normalized downloaded grade   *)
(* is not F, or the roster grade is not ABSENT and the two differ; ABSENT  *)
(* against F is matched, ABSENT against D is mismatched, P against PASS    *)
(* is matched.                                                             *)
(***************************************************************************)
C1_Rule(R, D) == (R = T_ABSENT /\ D # T_F) \/ (R # T_ABSENT /\ R # D)

\* A one-row roster and a one-row downloaded table for identifier 100 with these grade
\* cells give one result row, with this value of matched.
C1_Scenario(roster_grade, downloaded_grade, matched) ==
    ( /\ results # <<>>
      /\ StagedRosterRows = << <<Id100, roster_grade>> >>
      /\ StagedDownloadedRows = << <<Id100, downloaded_grade, Blank>> >> )
    => /\ Len(results[1].data) = 1
       /\ results[1].data[1].matched = matched

C1_MismatchRule ==
    /\ \A k \in Successes : \A n \in 1..Len(results[k].data) :
          LET row == results[k].data[n]
          IN  JoinOrigin(row) = "both" =>
                 (~row.matched <=> C1_Rule(normalize_grade(row.Letter_Grade),
                                           normalize_grade(row.Approved_final_grade)))
    /\ C1_Scenario(G_Absent, T_F, TRUE)
    /\ C1_Scenario(G_abs, T_F, TRUE)
    /\ C1_Scenario(G_Absent, G_D, FALSE)
    /\ C1_Scenario(G_p, G_Pass, TRUE)
    /\ C1_Scenario(G_A, G_a, TRUE)
    /\ C1_Scenario(G_A, G_D, FALSE)
    /\ C1_Scenario(G_Absent, T_ABSENT, FALSE)

\* A run whose result holds a matched ABSENT-against-F row and a mismatched row.
C1_Witness ==
    /\ returned
    /\ \E k \in Successes : \E n, m \in 1..Len(results[k].data) :
          LET a == results[k].data[n]
              b == results[k].data[m]
          IN  /\ JoinOrigin(a) = "both" /\ JoinOrigin(b) = "both"
              /\ a.Letter_Grade = T_ABSENT /\ a.Approved_final_grade = T_F /\ a.matched
              /\ b.Letter_Grade = T_P /\ b.Approved_final_grade = T_F /\ ~b.matched

(***************************************************************************)
(* C2.  A row present on one side only has matched = TRUE whatever its     *)
(* grades, is not among unmatched, adds nothing to total_mismatches and    *)
(* courses_with_mismatches, and is counted in total_students and in the    *)
(* unique students.                                                        *)
(***************************************************************************)
OneSided(row) == JoinOrigin(row) # "both"

BothAndUnmatched(row) == JoinOrigin(row) = "both" /\ ~row.matched

DisputedCount(outcome) == Cardinality(Where(outcome.data, BothAndUnmatched))

HasDisputed(outcome) == IF DisputedCount(outcome) > 0 THEN 1 ELSE 0

C2_OneSidedMatched ==
    /\ \A k \in Successes : \A n \in 1..Len(results[k].data) :
          LET row == results[k].data[n]
          IN  OneSided(row) =>
                 /\ row.matched
                 /\ \A u \in 1..Len(results[k].unmatched) : results[k].unmatched[u] # row
                 /\ row.ID_final \in unique_student_ids
    /\ summary_stats.total_mismatches = SumOfSuccesses(DisputedCount)
    /\ summary_stats.courses_with_mismatches = SumOfSuccesses(HasDisputed)
    /\ summary_stats.total_students = SumOfSuccesses(RowCount)
    /\ unique_student_ids = AllRowIds

\* A returned run with a roster-only row and a downloaded-only row, both with a grade,
\* and no mismatch counted.
C2_Witness ==
    /\ returned
    /\ summary_stats.total_mismatches = 0
    /\ summary_stats.total_students >= 2
    /\ \E k \in Successes : \E n, m \in 1..Len(results[k].data) :
          /\ JoinOrigin(results[k].data[n]) = "roster_only"
          /\ results[k].data[n].Letter_Grade = G_A
          /\ JoinOrigin(results[k].data[m]) = "downloaded_only"
          /\ results[k].data[m].Approved_final_grade = T_W

(***************************************************************************)
(* C3.  A joined row is withdrawn exactly when its trimmed, uppercased     *)
(* approved grade is W or its trimmed, uppercased withdrawn flag is        *)
(* WITHDRAWN, whatever the mismatch rule says of it; a downloaded-only     *)
(* row with grade W and an empty flag is withdrawn, matched, counted in    *)
(* the students and in no mismatch count.                                  *)
(***************************************************************************)
Trimmed(cell) == Upper(Strip(Str(cell)))

\* The staged downloaded rows that give a result row its identifier and approved grade.
DownloadedRowsOf(row) ==
    {n \in 1..Len(StagedDownloadedRows) :
        /\ Strip(Str(StagedDownloadedRows[n][1])) = row.ID_final
        /\ Trimmed(StagedDownloadedRows[n][2]) = row.Approved_final_grade}

C3_Rule(d) == Trimmed(d[2]) = T_W \/ Trimmed(d[3]) = T_WITHDRAWN

\* The result rows of an outcome with the identifier and approved grade of a row.
RowsLike(outcome, row) ==
    {n \in 1..Len(outcome.data) :
        /\ outcome.data[n].ID_final = row.ID_final
        /\ outcome.data[n].Approved_final_grade = row.Approved_final_grade}

C3_WithdrawalRule ==
    \A k \in Successes : \A n \in 1..Len(results[k].data) :
        LET row == results[k].data[n]
        IN  /\ JoinOrigin(row) = "roster_only" => ~row.is_withdrawn
            /\ JoinOrigin(row) # "roster_only" =>
                  {results[k].data[j].is_withdrawn : j \in RowsLike(results[k], row)}
                     = {C3_Rule(StagedDownloadedRows[j]) : j \in DownloadedRowsOf(row)}
            /\ (JoinOrigin(row) = "downloaded_only" /\ row.Approved_final_grade = T_W) =>
                  /\ row.is_withdrawn
                  /\ row.matched
                  /\ row.ID_final \in unique_student_ids
                  /\ row.ID_final \in {results[k].withdrawn[j] :
                                          j \in 1..Len(results[k].withdrawn)}
                  /\ summary_stats.total_students >= 1
                  /\ \A u \in 1..Len(results[k].unmatched) : results[k].unmatched[u] # row

\* A returned run with a row that is withdrawn by its flag alone and mismatched.
C3_Witness ==
    /\ returned
    /\ \E k \in Successes : \E n \in 1..Len(results[k].data) :
          LET row == results[k].data[n]
          IN  /\ row.is_withdrawn
              /\ ~row.matched
              /\ row.Approved_final_grade # T_W
              /\ summary_stats.total_mismatches >= 1
              /\ summary_stats.withdrawn_students >= 1

(***************************************************************************)
(* C4.  Every roster supplied has exactly one outcome, of status success   *)
(* or error, at its place in the result sequence once the run has          *)
(* returned, whichever path its course took; a downloaded table without a  *)
(* roster has none.                                                        *)
(***************************************************************************)
C4_OneOutcomePerCourse ==
    /\ Len(results) = next_roster - 1
    /\ \A k \in 1..Len(results) :
          /\ results[k].course = base_name(roster_files[k])
          /\ results[k].status \in {"success", "error"}
    /\ returned => Len(results) = Len(roster_files)

\* A returned run of two rosters: one had no downloaded file, the other failed or was
\* reconciled with its downloaded file.
C4_Witness ==
    /\ returned
    /\ Len(roster_files) = 2
    /\ Len(results) = 2
    /\ PairedRosters = {2}
    /\ results[1].status = "error"

(***************************************************************************)
(* C5.  No error ends the batch: whenever a course has just failed the run *)
(* goes on and eventually returns with an outcome for every roster, and a  *)
(* failing step appends one error outcome and changes no earlier outcome,  *)
(* no student statistic and no list of unmatched rows.                     *)
(***************************************************************************)
FailedJustNow == ~returned /\ results # <<>> /\ Last(results).status = "error"

Finished == returned /\ Len(results) = Len(roster_files)

FailingStep == Len(results') > Len(results) /\ Last(results').status = "error"

C5_FailureIsLocal ==
    FailingStep =>
        /\ results' = Append(results, Last(results'))
        /\ Last(results').course = base_name(roster_files[next_roster])
        /\ next_roster' = next_roster + 1
        /\ ~returned'
        /\ UNCHANGED <<all_unmatched, unique_student_ids>>
        /\ summary_stats' = [summary_stats EXCEPT
                                !.total_courses = summary_stats'.total_courses]

C5_NoErrorAborts == (FailedJustNow ~> Finished) /\ [][C5_FailureIsLocal]_vars

\* A run in which the first of two courses has just failed while being read.
C5_Witness ==
    /\ FailedJustNow
    /\ Len(roster_files) = 2
    /\ Len(results) = 1
    /\ results[1].message.text = "Error processing files: "

(***************************************************************************)
(* C6.  As stated: every counter of the summary, total_courses included,   *)
(* is the fold over the successful outcomes alone.                         *)
(***************************************************************************)
HasUnmatched(outcome) == IF Len(outcome.unmatched) > 0 THEN 1 ELSE 0

One(outcome) == 1

StudentCountersFromSuccesses ==
    /\ summary_stats.courses_with_mismatches = SumOfSuccesses(HasUnmatched)
    /\ summary_stats.total_mismatches = SumOfSuccesses(UnmatchedCount)
    /\ summary_stats.total_students = SumOfSuccesses(RowCount)
    /\ summary_stats.withdrawn_students = SumOfSuccesses(WithdrawnCount)
    /\ returned => summary_stats.unique_students = Cardinality(AllRowIds)

C6_AsStated ==
    /\ summary_stats.total_courses = SumOfSuccesses(One)
    /\ StudentCountersFromSuccesses

(***************************************************************************)
(* C6, amended.  Every counter but total_courses is the fold over the      *)
(* successful outcomes alone; total_courses counts every roster processed  *)
(* that has a downloaded file of its name, failed or not.                  *)
(***************************************************************************)
C6_SummaryOfSuccesses ==
    /\ summary_stats.total_courses = Cardinality(PairedRosters \cap (1..Len(results)))
    /\ StudentCountersFromSuccesses

\* A returned run of two paired courses, one failed and one reconciled with students.
C6_Witness ==
    /\ returned
    /\ Cardinality(Errors) = 1
    /\ Cardinality(Successes) = 1
    /\ summary_stats.total_courses = 2
    /\ summary_stats.total_students >= 1

(***************************************************************************)
(* C7.  As stated: the two temporary files staged for a course are deleted *)
(* on every path out of its processing, so that no staged file exists      *)
(* once its outcome is appended, nor when the run returns.                 *)
(***************************************************************************)
C7_TempFilesDeleted == tmp_files = {}

(***************************************************************************)
(* C8.  The step for a roster without a downloaded table of its name       *)
(* appends the one error outcome "No matching downloaded file found" and   *)
(* leaves the summary (total_courses included), the unique-student set     *)
(* and the list of unmatched rows as they were.                            *)
(***************************************************************************)
NoMatchStep == InLoop /\ ~Paired /\ next_roster' # next_roster

C8_NoMatchEffect ==
    NoMatchStep =>
        /\ Len(results') = Len(results) + 1
        /\ SubSeq(results', 1, Len(results)) = results
        /\ Last(results').course = base_name(roster_files[next_roster])
        /\ Last(results').status = "error"
        /\ Last(results').message = Message("No matching downloaded file found", <<>>)
        /\ UNCHANGED <<summary_stats, unique_student_ids, all_unmatched>>

C8_NoMatchFrame == [][C8_NoMatchEffect]_vars

\* A roster without a downloaded file has followed a reconciled course with students.
C8_Witness ==
    /\ Len(results) = 2
    /\ results[1].status = "success"
    /\ results[2].message.text = "No matching downloaded file found"
    /\ summary_stats.total_courses = 1
    /\ summary_stats.total_students >= 1
    /\ unique_student_ids # {}

(***************************************************************************)
(* C9.  In every successful outcome the rows are the unmatched rows plus   *)
(* the rows with matched = TRUE; total_mismatches is the sum of the sizes  *)
(* of unmatched, and total_students the sum of the numbers of rows, over   *)
(* the successful outcomes.                                                *)
(***************************************************************************)
MatchedCount(outcome) == Cardinality(Where(outcome.data, IsMatched))

C9_RowsAddUp ==
    /\ \A k \in Successes :
          /\ RowCount(results[k]) = UnmatchedCount(results[k]) + MatchedCount(results[k])
          /\ \A u \in 1..Len(results[k].unmatched) : ~results[k].unmatched[u].matched
    /\ summary_stats.total_mismatches = SumOfSuccesses(UnmatchedCount)
    /\ summary_stats.total_students = SumOfSuccesses(RowCount)

\* A returned run with an outcome holding both a matched and an unmatched row.
C9_Witness ==
    /\ returned
    /\ \E k \in Successes :
          /\ UnmatchedCount(results[k]) >= 1
          /\ MatchedCount(results[k]) >= 1
    /\ summary_stats.total_students > summary_stats.total_mismatches

(***************************************************************************)
(* C10.  As stated: after a run unique_students <= total_students, with    *)
(* equality exactly when no identifier appears in more than one course.    *)
(***************************************************************************)
\* The identifiers of the rows of one outcome.
IdsOf(outcome) == {outcome.data[n].ID_final : n \in 1..Len(outcome.data)}

InTwoCourses(id) ==
    \E j, k \in Successes : j # k /\ id \in IdsOf(results[j]) /\ id \in IdsOf(results[k])

C10_AsStated ==
    returned =>
        /\ summary_stats.unique_students <= summary_stats.total_students
        /\ summary_stats.unique_students = summary_stats.total_students
              <=> ~ \E id \in AllRowIds : InTwoCourses(id)

(***************************************************************************)
(* C10, amended.  After a run unique_students <= total_students, with      *)
(* equality exactly when no identifier appears in more than one row of     *)
(* the successful outcomes, be it in two courses or twice in one; the same *)
(* identifier once in each of two courses gives 2 and 1.                   *)
(***************************************************************************)
InTwoRows(id) ==
    \E j, k \in Successes : \E n \in 1..Len(results[j].data), m \in 1..Len(results[k].data) :
        /\ <<j, n>> # <<k, m>>
        /\ results[j].data[n].ID_final = id
        /\ results[k].data[m].ID_final = id

OnceInEachOfTwo ==
    /\ Cardinality(Successes) = 2
    /\ \A k \in Successes : Len(results[k].data) = 1
    /\ Cardinality(AllRowIds) = 1

C10_UniqueAtMostTotal ==
    returned =>
        /\ summary_stats.unique_students <= summary_stats.total_students
        /\ summary_stats.unique_students = summary_stats.total_students
              <=> ~ \E id \in AllRowIds : InTwoRows(id)
        /\ OnceInEachOfTwo =>
              summary_stats.total_students = 2 /\ summary_stats.unique_students = 1

\* A returned run with the same identifier once in each of two courses.
C10_Witness ==
    /\ returned
    /\ OnceInEachOfTwo
    /\ summary_stats.total_students = 2
    /\ summary_stats.unique_students = 1

(***************************************************************************)
(* C11.  As stated: a joined row whose identifier is empty, is "nan" in    *)
(* any letter case or is not made of decimal digits only is in no          *)
(* outcome's rows and in no statistic of the summary, withdrawn_students   *)
(* included; a row whose identifier is all digits is in the rows.          *)
(***************************************************************************)
DecimalDigits == {"0", "1", "2", "3", "4", "5", "6", "7", "8", "9"}

AllDigits(id) == id # NA /\ id # <<>> /\ \A n \in 1..Len(id) : id[n] \in DecimalDigits

Admitted(id) == id # NA /\ id # <<>> /\ Lower(id) # T_nan /\ AllDigits(id)

IsWithdrawn(row) == row.is_withdrawn

\* The rows of an outcome that are withdrawn.
WithdrawnRowCount(outcome) == Cardinality(Where(outcome.data, IsWithdrawn))

\* The identifiers the cells of the files last staged hold, trimmed.
StagedIds ==
    {Strip(Str(StagedRosterRows[n][1])) : n \in 1..Len(StagedRosterRows)}
        \cup {Strip(Str(StagedDownloadedRows[n][1])) : n \in 1..Len(StagedDownloadedRows)}

C11_AsStated ==
    /\ \A k \in Successes :
          /\ \A id \in IdsOf(results[k]) : Admitted(id)
          /\ \A n \in 1..Len(results[k].withdrawn) : Admitted(results[k].withdrawn[n])
    /\ \A id \in unique_student_ids : Admitted(id)
    /\ summary_stats.total_students = SumOfSuccesses(RowCount)
    /\ summary_stats.total_mismatches = SumOfSuccesses(DisputedCount)
    /\ summary_stats.courses_with_mismatches = SumOfSuccesses(HasDisputed)
    /\ summary_stats.withdrawn_students = SumOfSuccesses(WithdrawnRowCount)
    /\ (results # <<>> /\ Last(results).status = "success") =>
          \A id \in StagedIds : AllDigits(id) => id \in IdsOf(Last(results))

(***************************************************************************)
(* C12.  As stated: in every successful outcome withdrawn is the list of   *)
(* the identifiers of the outcome's rows that are withdrawn, so that it is *)
(* no longer than the rows, and withdrawn_students is the sum of the       *)
(* lengths of these lists over the courses.                                *)
(***************************************************************************)
\* The identifiers of the withdrawn rows of an outcome, in the order of the rows.
WithdrawnRowIds(outcome) ==
    LET rows == SelectSeq(outcome.data, IsWithdrawn)
    IN  [n \in 1..Len(rows) |-> rows[n].ID_final]

C12_AsStated ==
    /\ \A k \in Successes :
          /\ results[k].withdrawn = WithdrawnRowIds(results[k])
          /\ results[k].message.args[3] <= results[k].message.args[1]
    /\ summary_stats.withdrawn_students = SumOfSuccesses(WithdrawnCount)

(***************************************************************************)
(* C13.  The outcomes are in the order the rosters were iterated: every    *)
(* step that changes the results appends, after the outcomes of the        *)
(* earlier rosters and leaving them as they were, the outcome of the       *)
(* roster being iterated, be it a success or an error of any kind.         *)
(***************************************************************************)
C13_AppendsInOrder ==
    results' # results =>
        /\ Len(results') = Len(results) + 1
        /\ SubSeq(results', 1, Len(results)) = results
        /\ Len(results') = next_roster
        /\ Last(results').course = base_name(roster_files[next_roster])
        /\ next_roster' = next_roster + 1

C13_OrderPreserved == [][C13_AppendsInOrder]_vars

\* A returned run of two rosters of different names: the first reconciled, the second
\* without a downloaded file, their outcomes in that order.
C13_Witness ==
    /\ returned
    /\ Len(roster_files) = 2
    /\ roster_files[1] # roster_files[2]
    /\ Len(results) = 2
    /\ results[1].status = "success"
    /\ results[1].course = base_name(roster_files[1])
    /\ results[2].status = "error"
    /\ results[2].course = base_name(roster_files[2])

(***************************************************************************)
(* C14.  normalize_grade returns a value for every grade token and is      *)
(* idempotent: applied to its own result it returns that result; it maps   *)
(* P and PASS to "PASS", ABS and ABSENT to "ABSENT", and every other       *)
(* token to its trimmed uppercase form.                                    *)
(***************************************************************************)
C14_Expected(g) ==
    LET token == Upper(Strip(Str(g)))
    IN  CASE token = T_P \/ token = T_PASS -> T_PASS
          [] token = T_ABS \/ token = T_ABSENT -> T_ABSENT
          [] OTHER -> token

C14_Idempotent ==
    /\ Len(normalized) >= 1 => normalized[1] = C14_Expected(grade_token)
    /\ \A k \in 2..Len(normalized) : normalized[k] = normalized[k - 1]

\* normalize_grade has been applied twice to a padded, mixed-case token that it maps
\* to another one.
C14_Witness ==
    /\ Len(normalized) >= 2
    /\ grade_token = G_Absent
    /\ normalized[1] = T_ABSENT
    /\ normalized[2] = T_ABSENT

(***************************************************************************)
(* C15.  read_roster_file takes as header the first row of the grid whose  *)
(* trimmed, uppercased cells include "LETTER GRADE" and one of "SID",      *)
(* "STUDENT ID", whatever rows satisfy the test after it; it fails with    *)
(* the header-not-found error exactly when no row does, and the course     *)
(* then gets an error outcome and no students.                             *)
(***************************************************************************)
C15_Cells(row) == {Trimmed(row[k]) : k \in 1..Len(row)}

C15_Satisfies(row) ==
    /\ T_LETTER_GRADE \in C15_Cells(row)
    /\ T_SID \in C15_Cells(row) \/ T_STUDENT_ID \in C15_Cells(row)

\* The places (from 1) of the rows of a grid that satisfy the test.
C15_Satisfying(grid) == {n \in 1..Len(grid) : C15_Satisfies(grid[n])}

HeaderNotFound(outcome) ==
    /\ outcome.status = "error"
    /\ outcome.message.text = "Header row with required keywords not found in "

\* The all-digit identifiers of the first cells of the rows after place n of a grid.
IdsAfter(grid, n) ==
    {id \in {Strip(Str(grid[k][1])) : k \in (n + 1)..Len(grid)} : AllDigits(id)}

C15_HeaderLocation ==
    results # <<>> =>
        LET grid == roster_value.grid
            found == C15_Satisfying(grid)
        IN  /\ found = {} => HeaderRow(grid) = None
            /\ found # {} =>
                  /\ HeaderRow(grid) + 1 \in found
                  /\ \A n \in found : HeaderRow(grid) + 1 <= n
            /\ HeaderNotFound(results[1]) <=> found = {}
            /\ HeaderNotFound(results[1]) =>
                  /\ results[1].data = "None"
                  /\ unique_student_ids = {}
                  /\ summary_stats.total_students = 0
            /\ (results[1].status = "success" /\ Len(downloaded_value) = 1) =>
                  IdsOf(results[1]) = IdsAfter(grid, HeaderRow(grid) + 1)

\* A grid with two blank rows, the header at index 2 and a student after it.
C15_Witness ==
    /\ returned
    /\ roster_value.grid = << <<NA, NA>>, <<NA, NA>>, RosterHeader, <<Id100, G_A>> >>
    /\ HeaderRow(roster_value.grid) = 2
    /\ results[1].status = "success"
    /\ IdsOf(results[1]) = {Id100}

(***************************************************************************)
(* C16.  When the header row was found the columns are checked in a fixed  *)
(* order and the first check that fails gives the message: the identifier  *)
(* column, then Letter Grade, then ID and Approved final grade of the      *)
(* downloaded table; a missing Withdrawn column is no error and the flag   *)
(* is then empty for every row; on each of these errors the outcome has no *)
(* rows and no student statistic nor the unique-student set changes.       *)
(***************************************************************************)
\* The labels of a header row, trimmed, in the case they are written in.
Labels(header) == {Strip(Str(header[k])) : k \in 1..Len(header)}

\* The header row read_roster_file located in the roster last staged.
LocatedHeader ==
    LET grid == roster_value.grid
    IN  grid[CHOOSE n \in C15_Satisfying(grid) : \A m \in C15_Satisfying(grid) : n <= m]

C16_Expected(roster_labels, downloaded_labels) ==
    IF T_SID \notin roster_labels /\ T_Student_ID \notin roster_labels
    THEN "Required student id column is missing."
    ELSE IF T_Letter_Grade \notin roster_labels
    THEN "'Letter Grade' column is missing."
    ELSE IF T_ID \notin downloaded_labels \/ T_Approved_final_grade \notin downloaded_labels
    THEN "Required columns are missing in downloaded file."
    ELSE ""

C16_ValidationOrder ==
    (results # <<>> /\ C15_Satisfying(roster_value.grid) # {} /\ downloaded_value # <<>>) =>
        LET downloaded_labels == Labels(downloaded_value[1])
            expected == C16_Expected(Labels(LocatedHeader), downloaded_labels)
        IN  /\ expected # "" =>
                  /\ results[1].status = "error"
                  /\ results[1].message = Message(expected, <<>>)
                  /\ results[1].data = "None"
                  /\ unique_student_ids = {}
                  /\ all_unmatched = <<>>
                  /\ summary_stats.total_students = 0
                  /\ summary_stats.total_mismatches = 0
                  /\ summary_stats.courses_with_mismatches = 0
                  /\ summary_stats.withdrawn_students = 0
            /\ expected = "" => results[1].status = "success"
            /\ (expected = "" /\ T_Withdrawn \notin downloaded_labels) =>
                  \A n \in 1..Len(results[1].data) :
                      results[1].data[n].is_withdrawn
                         <=> results[1].data[n].Approved_final_grade = T_W

\* A course that fails all three checks gets the message of the first.
C16_Witness ==
    /\ returned
    /\ Len(roster_value.grid) = 2
    /\ roster_value.grid[1] = <<Lower(T_SID), Lower(T_Letter_Grade)>>
    /\ downloaded_value[1] = <<T_Withdrawn>>
    /\ results[1].message.text = "Required student id column is missing."
    /\ summary_stats.total_courses = 1

(***************************************************************************)
(* C17.  total_courses is the number of rosters processed that have a      *)
(* downloaded table of their name, whether their outcome is a success or   *)
(* an error, and after the run the number of all such rosters;             *)
(* courses_with_mismatches is the number of successful outcomes with an    *)
(* unmatched row; so courses_with_mismatches is at most total_courses and  *)
(* at most total_mismatches, at every point of the run.                    *)
(***************************************************************************)
WithUnmatched == {k \in Successes : Len(results[k].unmatched) >= 1}

C17_CourseCounters ==
    /\ summary_stats.total_courses = Cardinality(PairedRosters \cap (1..Len(results)))
    /\ returned => summary_stats.total_courses = Cardinality(PairedRosters)
    /\ summary_stats.courses_with_mismatches = Cardinality(WithUnmatched)
    /\ summary_stats.courses_with_mismatches <= summary_stats.total_courses
    /\ summary_stats.courses_with_mismatches <= summary_stats.total_mismatches

\* A returned run of two paired rosters, one with an error outcome and one reconciled
\* with a mismatch.
C17_Witness ==
    /\ returned
    /\ PairedRosters = {1, 2}
    /\ Errors # {}
    /\ WithUnmatched # {}
    /\ summary_stats.total_courses = 2
    /\ summary_stats.courses_with_mismatches = 1

(***************************************************************************)
(* C18.  The header row is located whatever the letter case of its labels, *)
(* but the columns are then looked up by exact label: for a located header *)
(* the errors "Required student id column is missing." and "'Letter        *)
(* Grade' column is missing." occur exactly when its trimmed labels differ *)
(* in letter case from SID / Student ID or from Letter Grade, and never    *)
(* when they are exactly SID or Student ID, and Letter Grade.              *)
(***************************************************************************)
\* Some label is one of the names but for its letter case, and none is one of them.
DiffersInCase(labels, names) ==
    /\ labels \cap names = {}
    /\ \E label \in labels : \E name \in names : Upper(label) = Upper(name)

SidMissing(outcome) ==
    outcome.status = "error"
        /\ outcome.message = Message("Required student id column is missing.", <<>>)

LetterGradeMissing(outcome) ==
    outcome.status = "error"
        /\ outcome.message = Message("'Letter Grade' column is missing.", <<>>)

C18_CaseSensitivity ==
    (results # <<>> /\ C15_Satisfying(roster_value.grid) # {}) =>
        LET labels == Labels(LocatedHeader)
            id_differs == DiffersInCase(labels, {T_SID, T_Student_ID})
            grade_differs == DiffersInCase(labels, {T_Letter_Grade})
        IN  /\ ~HeaderNotFound(results[1])
            /\ (SidMissing(results[1]) \/ LetterGradeMissing(results[1]))
                  <=> (id_differs \/ grade_differs)
            /\ SidMissing(results[1]) <=> id_differs
            /\ LetterGradeMissing(results[1]) <=> (~id_differs /\ grade_differs)
            /\ (labels \cap {T_SID, T_Student_ID} # {} /\ T_Letter_Grade \in labels) =>
                  ~SidMissing(results[1]) /\ ~LetterGradeMissing(results[1])

\* A header row reading STUDENT ID, LETTER GRADE was located and then rejected.
C18_Witness ==
    /\ returned
    /\ Len(roster_value.grid) = 2
    /\ roster_value.grid[1] = <<T_STUDENT_ID, T_LETTER_GRADE>>
    /\ SidMissing(results[1])
=============================================================================
